---- MODULE Spec2Model ----
(***************************************************************************)
(* ForgeRockEmbeddedLogin: the session driver (startLogin, submitCallbacks, *)
(* handleCallbackResponse), the callback renderer (renderAllCallbacks,      *)
(* renderCallback, joinRenderedCallbacks) and the form binder               *)
(* (renderHandler, handleLoginSubmit) of the embeddedLogin object.          *)
(*                                                                          *)
(* JSON scalars are tagged with their JavaScript type, so that === and      *)
(* truthiness are decided as JavaScript decides them. An object is a        *)
(* record whose domain is the set of properties it has; an array is a       *)
(* sequence (index i of the code is position i + 1 here).                   *)
(***************************************************************************)
EXTENDS Integers, Sequences, FiniteSets, TLC

VARIABLES
    successHandler,     \* options.successHandler was supplied
    failureHandler,     \* options.failureHandler was supplied
    postRenderHandler,  \* options.postRenderHandler was supplied
    overridden,         \* the rendering methods the embedder has assigned on the instance
    loginElement,       \* the mount element: whether supplied, whether it has a
                        \* parent node, and its child nodes
    currentCallbacks,   \* this.currentCallbacks, the current AuthExchange
    inFlight,           \* requests sent by fetch whose promise has not settled
    pendingRenders,     \* renderAllCallbacks promises that have not resolved yet
    pollingInProgress,  \* this.pollingInProgress
    timers,             \* number of setTimeout callbacks scheduled and not yet run
    redirectForm,       \* the last form submitted for a RedirectCallback
    lastResponse,       \* history: the response most recently stored
    sent,               \* history: number of requests sent so far
    ev                  \* history: what the last step did

vars == <<successHandler, failureHandler, postRenderHandler, overridden, loginElement,
          currentCallbacks, inFlight, pendingRenders, pollingInProgress,
          timers, redirectForm, lastResponse, sent, ev>>

config == <<successHandler, failureHandler, postRenderHandler, overridden>>

-----------------------------------------------------------------------------
(* Bounds of the exploration *)

MaxCallbacks == 2   \* longest descriptor sequence of a server response
MaxRequests == 3    \* requests sent in one behaviour
MaxInFlight == 2    \* requests in flight at the same time
MaxPending == 1     \* asynchronous renders not yet resolved
MaxTimers == 1      \* scheduled timer callbacks that are told apart

-----------------------------------------------------------------------------
(* JavaScript values *)

Str(s) == [t |-> "string", v |-> s]
Num(n) == [t |-> "number", v |-> n]
\* a string whose characters matter: the sequence of its pieces
Txt(cs) == [t |-> "string", cs |-> cs]
Arr(items) == [t |-> "array", items |-> items]
Obj(props) == [t |-> "object", props |-> props]
JsUndefined == [t |-> "undefined"]
JsFalse == [t |-> "boolean", v |-> FALSE]

Has(obj, f) == f \in DOMAIN obj
Get(obj, f) == IF Has(obj, f) THEN obj[f] ELSE JsUndefined

\* ToBoolean, as the !! of success() applies it
Truthy(val) ==
    CASE val.t = "undefined" -> FALSE
      [] val.t = "string" -> IF Has(val, "v") THEN val.v # "" ELSE val.cs # <<>>
      [] val.t = "number" -> val.v # 0
      [] val.t = "boolean" -> val.v
      [] OTHER -> TRUE

DigitChar == <<"0", "1", "2", "3", "4", "5", "6", "7", "8", "9">>

\* the decimal digits of a natural number, most significant first
RECURSIVE Digits(_)
Digits(n) == IF n < 10 THEN <<n>> ELSE Append(Digits(n \div 10), n % 10)

\* parseInt(digits, 10) on a non-empty run of decimal digits
RECURSIVE parseInt(_)
parseInt(ds) ==
    IF ds = <<>> THEN 0 ELSE 10 * parseInt(SubSeq(ds, 1, Len(ds) - 1)) + ds[Len(ds)]

\* `${val}` inside a template literal
TemplateString(val) ==
    CASE val.t = "undefined" -> Str("undefined")
      [] val.t = "number" -> IF val.v < 10 THEN Str(DigitChar[val.v + 1]) ELSE Str("number")
      [] OTHER -> val

\* attr="${val}" in markup assigned to innerHTML: the attribute ends at the
\* first double quote of the interpolated text
DoubleQuote == "\""
quotedAttribute(val) ==
    LET text == TemplateString(val)
    IN  IF Has(text, "cs") /\ \E k \in DOMAIN text.cs : text.cs[k] = DoubleQuote
        THEN Txt(SubSeq(text.cs, 1,
                        (CHOOSE k \in DOMAIN text.cs :
                            /\ text.cs[k] = DoubleQuote
                            /\ \A j \in 1..(k - 1) : text.cs[j] # DoubleQuote) - 1))
        ELSE text

\* the name `callback_${index}` : prefix, digits, and what follows the digits
CallbackName(index) == [pre |-> "callback_", digits |-> Digits(index), post |-> ""]
OtherName(s) == [pre |-> s, digits |-> <<>>, post |-> ""]

-----------------------------------------------------------------------------
(* Session driver: classification *)

EmptyExchange == [f \in {} |-> JsUndefined]   \* the object {}
Undefined == [undefined |-> TRUE]             \* this.currentCallbacks before startLogin

success(cc) == Truthy(Get(cc, "tokenId"))

failure_codeOnly(cc) == Get(cc, "code") = Num(401)
failure(cc) == Get(cc, "authId") = JsUndefined /\ Get(cc, "code") = Num(401)

-----------------------------------------------------------------------------
(* Callback renderer *)

\* the first item of the array whose name is the given one, else false
RECURSIVE findName(_, _)
findName(array, name) ==
    IF array = <<>> THEN JsFalse
    ELSE IF Has(array[1], "name") /\ array[1].name = name THEN array[1]
    ELSE findName(Tail(array), name)

\* promptOutput.value.replace(/:$/, "") on the pieces of a string
replaceTrailingColon(cs) ==
    IF cs # <<>> /\ cs[Len(cs)] = ":" THEN SubSeq(cs, 1, Len(cs) - 1) ELSE cs

\* what one renderCallback call gives back: the nodes its promise resolves
\* with (one node, the nodes of an array, or undefined), whether it threw,
\* how many timers it scheduled and the forms it submitted
Rendered(units) == [fault |-> FALSE, units |-> units, timers |-> 0, redirect |-> <<>>]
Thrown == [fault |-> TRUE, units |-> <<>>, timers |-> 0, redirect |-> <<>>]
UndefinedNode == [el |-> "undefined"]

\* callback.input[0] is an object: input is an array that is not empty
HasInput0(callback) ==
    /\ Has(callback, "input")
    /\ callback.input.t = "array"
    /\ callback.input.items # <<>>
Input0Value(callback) == Get(callback.input.items[1], "value")

\* callback.input.value: an array has no such property
InputValueProperty(input) == IF input.t = "object" THEN Get(input.props, "value") ELSE JsUndefined

renderNameCallback(callback, index, prompt) ==
    IF ~HasInput0(callback) THEN Thrown
    ELSE Rendered(<<[el |-> "input", type |-> "text", name |-> CallbackName(index),
                     value |-> quotedAttribute(Input0Value(callback)),
                     placeholder |-> quotedAttribute(prompt)]>>)

renderPasswordCallback(callback, index, prompt) ==
    IF ~HasInput0(callback) THEN Thrown
    ELSE Rendered(<<[el |-> "input", type |-> "password", name |-> CallbackName(index),
                     value |-> quotedAttribute(Input0Value(callback)),
                     placeholder |-> quotedAttribute(prompt)]>>)

\* a replacement the embedder assigns, as the README writes it: the input of
\* the same name and value inside a label that shows the prompt
replacementOf(method, callback, index, prompt) ==
    IF ~HasInput0(callback) THEN Thrown
    ELSE Rendered(<<[el |-> "input",
                     type |-> IF method = "renderPasswordCallback" THEN "password" ELSE "text",
                     name |-> CallbackName(index),
                     value |-> quotedAttribute(Input0Value(callback)),
                     label |-> prompt, by |-> method]>>)

\* this.renderNameCallback(...), this.renderPasswordCallback(...): the
\* property assigned on the instance if there is one, else the prototype's
this_renderNameCallback(callback, index, prompt) ==
    IF "renderNameCallback" \in overridden
    THEN replacementOf("renderNameCallback", callback, index, prompt)
    ELSE renderNameCallback(callback, index, prompt)

this_renderPasswordCallback_prototype(callback, index, prompt) ==
    renderPasswordCallback(callback, index, prompt)
this_renderPasswordCallback(callback, index, prompt) ==
    IF "renderPasswordCallback" \in overridden
    THEN replacementOf("renderPasswordCallback", callback, index, prompt)
    ELSE renderPasswordCallback(callback, index, prompt)

renderTextInputCallback(callback, index, prompt) ==
    IF ~HasInput0(callback) THEN Thrown
    ELSE Rendered(<<[el |-> "textarea", name |-> CallbackName(index),
                     value |-> TemplateString(Input0Value(callback))]>>)

renderTextOutputScript(index, messageValue) ==
    Rendered(<<[el |-> "script", text |-> TemplateString(messageValue)]>>)

renderTextOutputMessage(index, messageValue, typeValue) ==
    Rendered(<<[el |-> "div", id |-> CallbackName(index),
                class |-> quotedAttribute(typeValue),
                text |-> TemplateString(messageValue)]>>)

\* isDefault is a parameter of the method; the markup does not use it
renderConfirmationCallbackOption(option, index, key, isDefault) ==
    [el |-> "input", type |-> "submit", name |-> CallbackName(index),
     index |-> key, value |-> quotedAttribute(option)]

renderChoiceCallback(callback, index, prompt, choices) ==
    Rendered(<<[el |-> "div", label |-> prompt, name |-> CallbackName(index),
                options |-> [k \in DOMAIN choices |->
                                [value |-> choices[k].key,
                                 selected |-> choices[k].active,
                                 text |-> TemplateString(choices[k].value)]]]>>)

renderHiddenValueCallback(callback, index) ==
    IF ~Has(callback, "input") THEN Thrown
    ELSE Rendered(<<[el |-> "input", type |-> "hidden",
                     id |-> quotedAttribute(InputValueProperty(callback.input)),
                     name |-> CallbackName(index), value |-> Str("")]>>)

renderPollingWaitCallback(callback, index, message) ==
    IF ~Has(callback, "input") THEN Thrown
    ELSE Rendered(<<[el |-> "input", type |-> "hidden",
                     id |-> quotedAttribute(InputValueProperty(callback.input)),
                     name |-> CallbackName(index), value |-> Str("")]>>)

\* the widget container: its data-sitekey, the index its script tests and
\* the hidden input named callback_<index>
renderReCaptchaCallback(option, index, key) ==
    IF option.output = <<>> THEN Thrown
    ELSE Rendered(<<[el |-> "recaptcha",
                     sitekey |-> TemplateString(Get(option.output[1], "value")),
                     callback_index |-> index,
                     name |-> CallbackName(index), value |-> Str("")]>>)

\* the script renderReCaptchaCallback generates, run when the form enters the
\* document: document.querySelectorAll('input[type=submit]')[0]
firstSubmit(children) ==
    LET submits == {k \in DOMAIN children :
                       children[k].el = "input" /\ children[k].type = "submit"}
    IN  IF submits = {} THEN JsUndefined
        ELSE children[CHOOSE k \in submits : \A j \in submits : k <= j]

\* callback_index === 0 && loginButton && loginButton.name === "callback_1"
standaloneMode(children, callback_index) ==
    /\ callback_index = 0
    /\ firstSubmit(children) # JsUndefined
    /\ firstSubmit(children).name = CallbackName(1)

\* if (standaloneMode) loginButton.style.display = "none", for the widgets
\* of the form
hidesLoginButton(children) ==
    \E k \in DOMAIN children :
       children[k].el = "recaptcha" /\ standaloneMode(children, children[k].callback_index)

renderUnknownCallback_prototype(callback, index, prompt) ==
    renderNameCallback(callback, index, prompt)
renderUnknownCallback(callback, index, prompt) ==
    this_renderNameCallback(callback, index, prompt)

messageTypeMap_shifted(typeValue) ==
    IF typeValue \in {Num(1), Str("1")} THEN Str("INFORMATION")
    ELSE IF typeValue \in {Num(2), Str("2")} THEN Str("WARNING")
    ELSE IF typeValue \in {Num(3), Str("3")} THEN Str("ERROR")
    ELSE JsUndefined
messageTypeMap(typeValue) ==
    IF typeValue \in {Num(0), Str("0")} THEN Str("INFORMATION")
    ELSE IF typeValue \in {Num(1), Str("1")} THEN Str("WARNING")
    ELSE IF typeValue \in {Num(2), Str("2")} THEN Str("ERROR")
    ELSE JsUndefined

\* the body of the RedirectCallback case: the form it builds and submits
redirectCase(callback) ==
    LET redirectUrl == findName(callback.output, "redirectUrl")
        redirectMethod == findName(callback.output, "redirectMethod")
        redirectData == findName(callback.output, "redirectData")
        data == Get(redirectData, "value")
        form == [action |-> TemplateString(Get(redirectUrl, "value")),
                 method |-> TemplateString(Get(redirectMethod, "value")),
                 fields |-> IF redirectData # JsFalse /\ Truthy(data)
                            THEN [k \in DOMAIN data.items |->
                                    [name |-> k - 1, value |-> TemplateString(data.items[k])]]
                            ELSE <<>>]
    IN  IF redirectData # JsFalse /\ Truthy(data) /\ data.t # "array"
        THEN Thrown   \* .forEach is not a function
        ELSE [fault |-> FALSE, units |-> <<UndefinedNode>>, timers |-> 0,
              redirect |-> <<form>>]

\* If there is only one option then mark it as default
defaultOptionOf_anyCount(callback, options) == findName(callback.output, "defaultOption")
defaultOptionOf(callback, options) ==
    IF Len(options) > 1 THEN findName(callback.output, "defaultOption")
    ELSE [value |-> Num(0)]

\* defaultOption && defaultOption.value === key, the isDefault argument of
\* renderConfirmationCallbackOption, as a boolean
isDefaultArgument(callback, options, key) ==
    LET defaultOption == defaultOptionOf(callback, options)
    IN  defaultOption # JsFalse /\ Get(defaultOption, "value") = Num(key)

renderCallback(callback, index) ==
    IF ~Has(callback, "output") THEN Thrown
    ELSE
    LET promptOutput == findName(callback.output, "prompt")
        pv == Get(promptOutput, "value")
        prompt == IF promptOutput # JsFalse /\ Truthy(pv) /\ Has(pv, "cs") /\ Len(pv.cs) # 0
                  THEN Txt(replaceTrailingColon(pv.cs)) ELSE Txt(<<>>)
    IN  CASE callback.type = "NameCallback" -> this_renderNameCallback(callback, index, prompt)
          [] callback.type = "PasswordCallback" -> this_renderPasswordCallback(callback, index, prompt)
          [] callback.type = "TextInputCallback" -> renderTextInputCallback(callback, index, prompt)
          [] callback.type = "TextOutputCallback" ->
                LET type == findName(callback.output, "messageType")
                    message == findName(callback.output, "message")
                IN  IF Get(type, "value") = Str("4")
                    THEN renderTextOutputScript(index, Get(message, "value"))
                    ELSE renderTextOutputMessage(index, Get(message, "value"),
                                                 messageTypeMap(Get(type, "value")))
          [] callback.type = "ConfirmationCallback" ->
                LET options == findName(callback.output, "options")
                    ov == Get(options, "value")
                IN  IF options # JsFalse /\ ov # JsUndefined
                    THEN IF ov.t # "array" THEN Thrown   \* .map is not a function
                         ELSE Rendered([k \in DOMAIN ov.items |->
                                 renderConfirmationCallbackOption(ov.items[k], index, k - 1,
                                    isDefaultArgument(callback, ov.items, k - 1))])
                    ELSE Rendered(<<>>)
          [] callback.type = "ChoiceCallback" ->
                LET choiceOutput == findName(callback.output, "choices")
                    cv == Get(choiceOutput, "value")
                IN  IF choiceOutput # JsFalse /\ cv # JsUndefined
                    THEN IF cv.t # "array" \/ ~Has(callback, "input") THEN Thrown
                         ELSE renderChoiceCallback(callback, index, prompt,
                                [k \in DOMAIN cv.items |->
                                    [active |-> InputValueProperty(callback.input) = Num(k - 1),
                                     key |-> k - 1,
                                     value |-> cv.items[k]]])
                    ELSE Rendered(<<>>)
          [] callback.type = "HiddenValueCallback" -> renderHiddenValueCallback(callback, index)
          [] callback.type = "RedirectCallback" -> redirectCase(callback)
          [] callback.type = "PollingWaitCallback" ->
                LET r == renderPollingWaitCallback(callback, index,
                            Get(findName(callback.output, "message"), "value"))
                IN  [r EXCEPT !.timers = 1]
          [] callback.type = "ReCaptchaCallback" -> renderReCaptchaCallback(callback, index, prompt)
          [] OTHER -> renderUnknownCallback(callback, index, prompt)

getLoginButtonText == Str("Login")

LoginButtonTypes == {"ConfirmationCallback", "PollingWaitCallback", "RedirectCallback"}

\* the reduce over the descriptors that decides whether a login button is added
needsLoginButton_confirmationOnly(callbacks) ==
    ~ \E i \in DOMAIN callbacks :
          Has(callbacks[i], "type") /\ callbacks[i].type = "ConfirmationCallback"
needsLoginButton(callbacks) ==
    ~ \E i \in DOMAIN callbacks :
          Has(callbacks[i], "type") /\ callbacks[i].type \in LoginButtonTypes

loginCallback(callbacks) ==
    [input |-> Obj([index |-> Num(Len(callbacks)), name |-> Str("loginButton"),
                    value |-> Num(0)]),
     output |-> <<[name |-> "options", value |-> Arr(<<getLoginButtonText>>)]>>,
     type |-> "ConfirmationCallback"]

\* result.concat(item) over the resolved values: an array is spread, anything
\* else (a node, undefined) is appended
RECURSIVE flatten(_)
flatten(results) ==
    IF results = <<>> THEN <<>> ELSE results[1].units \o flatten(Tail(results))

Br == [el |-> "br"]

RECURSIVE appendWithBreaks_between(_)
appendWithBreaks_between(units) ==
    IF Len(units) <= 1 THEN units
    ELSE <<units[1], Br>> \o appendWithBreaks_between(Tail(units))

RECURSIVE appendWithBreaks(_)
appendWithBreaks(units) ==
    IF units = <<>> THEN <<>> ELSE <<units[1], Br>> \o appendWithBreaks(Tail(units))

\* the form node, or a TypeError when appendChild is given undefined
joinRenderedCallbacks(renderedCallbacks) ==
    LET units == flatten(renderedCallbacks)
    IN  IF \E i \in DOMAIN units : units[i] = UndefinedNode
        THEN [fault |-> TRUE, form |-> [el |-> "form", children |-> <<>>]]
        ELSE [fault |-> FALSE, form |-> [el |-> "form", children |-> appendWithBreaks(units)]]

\* the descriptors renderCallback is mapped over (concat gives a new array)
renderList(callbacks) ==
    IF needsLoginButton(callbacks) THEN callbacks \o <<loginCallback(callbacks)>> ELSE callbacks

\* this.currentCallbacks after callbacks.concat(loginCallback): concat gives
\* a new array and leaves the one it is called on as it was
afterConcat(cc, list) == cc

\* renderAllCallbacks up to Promise.all: the map stops at the first
\* renderCallback that throws, and what the earlier calls did stays done.
\*   thrown  : renderAllCallbacks threw (no callbacks array, or a renderCallback threw)
\*   results : what each renderCallback call gave back
\*   cc      : this.currentCallbacks after the call

collectRendered(cc, list, all) ==
    LET faults == {i \in DOMAIN all : all[i].fault}
        done == IF faults = {} THEN DOMAIN all
                ELSE {i \in DOMAIN all : \A j \in faults : i < j}
        \* the call that threw ran up to its throw: a PollingWaitCallback
        \* has called setTimeout before renderPollingWaitCallback throws
        begun == done \cup {i \in faults : \A j \in faults : i <= j}
        redirects == {i \in done : all[i].redirect # <<>>}
    IN  [thrown |-> faults # {},
         results |-> all,
         timers |-> Cardinality({i \in begun : all[i].timers > 0}),
         redirect |-> IF redirects = {} THEN <<>>
                      ELSE all[CHOOSE i \in redirects : \A j \in redirects : j <= i].redirect,
         cc |-> afterConcat(cc, list)]

mapRenderCallback(list) == [i \in DOMAIN list |-> renderCallback(list[i], i - 1)]

renderAllCallbacks(cc) ==
    IF ~Has(cc, "callbacks")
    THEN [thrown |-> TRUE, results |-> <<>>, timers |-> 0, redirect |-> <<>>, cc |-> cc]
    ELSE collectRendered(cc, renderList(cc.callbacks),
                         mapRenderCallback(renderList(cc.callbacks)))

-----------------------------------------------------------------------------
(* Form binder *)

\* the login form as renderHandler leaves it in the mount element
renderHandler_append(loginContent) ==
    IF loginElement.supplied
    THEN [loginElement EXCEPT !.children =
            @ \o <<[el |-> "form", children |-> loginContent.children,
                    onsubmit |-> "handleLoginSubmit"]>>]
    ELSE loginElement
renderHandler(loginContent) ==
    IF loginElement.supplied
    THEN [loginElement EXCEPT !.children =
            <<[el |-> "form", children |-> loginContent.children,
               onsubmit |-> "handleLoginSubmit"]>>]
    ELSE loginElement

\* this.loginElement.parentNode.replaceChild: a TypeError when the mount
\* element has no parent node
renderHandlerThrows == loginElement.supplied /\ ~loginElement.attached

IsForm(node) == node.el = "form" /\ Has(node, "onsubmit")

\* the controls of a form that new FormData(form) lists: submit buttons are
\* not listed (no submitter is passed), a select needs an option
IsField(u) ==
    \/ u.el = "input" /\ u.type \in {"text", "password", "hidden"}
    \/ u.el = "textarea"
    \/ u.el = "div" /\ Has(u, "options") /\ u.options # <<>>
    \/ u.el = "recaptcha"

\* fields whose value the user sets: typed text, a selected option, a solved challenge
IsTyped(u) == ~(u.el = "input" /\ u.type = "hidden")

Keep == Str("(unchanged)")
UserValues == {Str("alice"), Str("bob")}

\* the entries of one control, given what the user did with it
fieldEntries(u, edit) ==
    IF u.el = "recaptcha"
    THEN \* the widget adds its own response field next to the hidden input
         <<[name |-> OtherName("g-recaptcha-response"), value |-> Str("token")],
           [name |-> u.name, value |-> IF edit = Keep THEN u.value ELSE Str("token")]>>
    ELSE IF u.el = "div"
    THEN <<[name |-> u.name,
            value |-> TemplateString(Num(u.options[IF edit = Keep THEN 1
                                                   ELSE Len(u.options)].value))]>>
    ELSE <<[name |-> u.name, value |-> IF edit = Keep THEN u.value ELSE edit]>>

RECURSIVE formData(_, _, _)
formData(children, edits, i) ==
    IF i > Len(children) THEN <<>>
    ELSE (IF IsField(children[i]) THEN fieldEntries(children[i], edits[i]) ELSE <<>>)
         \o formData(children, edits, i + 1)

\* entry[0].match(/^callback_(\d+)$/)
matchCallbackName(name) == name.pre = "callback_" /\ name.digits # <<>> /\ name.post = ""

\* this.currentCallbacks.callbacks[n].input[0].value = value
CanWrite(cc, n) ==
    /\ Has(cc, "callbacks")
    /\ n + 1 \in DOMAIN cc.callbacks
    /\ HasInput0(cc.callbacks[n + 1])

writeInput0_dropped(cc, n, value) == cc
writeInput0(cc, n, value) ==
    LET slot == cc.callbacks[n + 1].input.items[1]
        written == [f \in DOMAIN slot \cup {"value"} |-> IF f = "value" THEN value ELSE slot[f]]
    IN  [cc EXCEPT !.callbacks[n + 1].input.items[1] = written]

RECURSIVE copyEntries_skipMissing(_, _)
copyEntries_skipMissing(cc, entries) ==
    IF entries = <<>> THEN [cc |-> cc, fault |-> FALSE]
    ELSE IF ~matchCallbackName(entries[1].name)
            \/ ~CanWrite(cc, parseInt(entries[1].name.digits))
    THEN copyEntries_skipMissing(cc, Tail(entries))
    ELSE copyEntries_skipMissing(
            writeInput0(cc, parseInt(entries[1].name.digits), entries[1].value),
            Tail(entries))

\* the for loop of handleLoginSubmit: the exchange after the writes, and
\* whether an assignment threw (the writes before it stay)
RECURSIVE copyEntries(_, _)
copyEntries(cc, entries) ==
    IF entries = <<>> THEN [cc |-> cc, fault |-> FALSE]
    ELSE IF ~matchCallbackName(entries[1].name) THEN copyEntries(cc, Tail(entries))
    ELSE LET n == parseInt(entries[1].name.digits)
         IN  IF ~CanWrite(cc, n) THEN [cc |-> cc, fault |-> TRUE]
             ELSE copyEntries(writeInput0(cc, n, entries[1].value), Tail(entries))

-----------------------------------------------------------------------------
(* Requests *)

\* JSON.stringify of an exchange: the text that stands for it
JSONstringify(cc) == [json |-> cc]

ApiVersionHeader == <<"accept-api-version", "protocol=1.0,resource=2.1">>
ContentTypeHeader == <<"content-type", "application/json">>

\* the fetch call of submitCallbacks
fetchRequest_sameOrigin(cc) ==
    [mode |-> "cors", method |-> "POST", credentials |-> "same-origin",
     headers |-> {ApiVersionHeader, ContentTypeHeader},
     body |-> JSONstringify(cc)]
fetchRequest(cc) ==
    [mode |-> "cors", method |-> "POST", credentials |-> "include",
     headers |-> {ApiVersionHeader, ContentTypeHeader},
     body |-> JSONstringify(cc)]

NoRequest == [none |-> TRUE]
NoForm == [none |-> TRUE]

-----------------------------------------------------------------------------
(* What the server may answer *)

SeqsUpTo(S, n) == UNION {[1..k -> S] : k \in 0..n}

\* an optional property: no value, or one
Opt(S) == {{}} \cup {{x} : x \in S}
The(s) == CHOOSE x \in s : TRUE

NameCb ==
    [type |-> "NameCallback",
     input |-> Arr(<<[name |-> "IDToken1", value |-> Str("")]>>),
     output |-> <<[name |-> "prompt", value |-> Txt(<<"User Name", ":">>)]>>]

ConfirmCb ==
    [type |-> "ConfirmationCallback",
     input |-> Arr(<<[name |-> "IDToken2", value |-> Num(0)]>>),
     output |-> <<[name |-> "options", value |-> Arr(<<Str("Yes"), Str("No")>>)],
                  [name |-> "defaultOption", value |-> Num(1)]>>]

\* as the server sends it: a PollingWaitCallback has no input
PollingCb ==
    [type |-> "PollingWaitCallback",
     output |-> <<[name |-> "waitTime", value |-> Str("8000")],
                  [name |-> "message", value |-> Str("Waiting for response...")]>>]

PollingCbWithInput ==
    [type |-> "PollingWaitCallback",
     input |-> Arr(<<[name |-> "IDToken3", value |-> Str("")]>>),
     output |-> <<[name |-> "waitTime", value |-> Str("8000")],
                  [name |-> "message", value |-> Str("Waiting for response...")]>>]

RedirectCb ==
    [type |-> "RedirectCallback",
     output |-> <<[name |-> "redirectUrl", value |-> Str("https://idp.example/sso")],
                  [name |-> "redirectMethod", value |-> Str("GET")]>>]

ReCaptchaCb ==
    [type |-> "ReCaptchaCallback",
     input |-> Arr(<<[name |-> "IDToken4", value |-> Str("")]>>),
     output |-> <<[name |-> "reCaptchaSiteKey", value |-> Str("site-key")]>>]

PasswordCb ==
    [type |-> "PasswordCallback",
     input |-> Arr(<<[name |-> "IDToken2", value |-> Str("")]>>),
     output |-> <<[name |-> "prompt", value |-> Txt(<<"Password", ":">>)]>>]

TextInputCb ==
    [type |-> "TextInputCallback",
     input |-> Arr(<<[name |-> "IDToken1", value |-> Str("seed")]>>),
     output |-> <<[name |-> "prompt", value |-> Txt(<<"Comment">>)]>>]

TextOutputCb ==
    [type |-> "TextOutputCallback",
     output |-> <<[name |-> "message", value |-> Str("Welcome")],
                  [name |-> "messageType", value |-> Str("0")]>>]

ScriptCb ==
    [type |-> "TextOutputCallback",
     output |-> <<[name |-> "message", value |-> Str("window.x = 1;")],
                  [name |-> "messageType", value |-> Str("4")]>>]

ChoiceCb ==
    [type |-> "ChoiceCallback",
     input |-> Arr(<<[name |-> "IDToken1", value |-> Num(1)]>>),
     output |-> <<[name |-> "prompt", value |-> Txt(<<"Realm", ":">>)],
                  [name |-> "choices", value |-> Arr(<<Str("staff"), Str("guest")>>)],
                  [name |-> "defaultChoice", value |-> Num(1)]>>]

HiddenCb ==
    [type |-> "HiddenValueCallback",
     input |-> Arr(<<[name |-> "IDToken1", value |-> Str("hidden-seed")]>>),
     output |-> <<[name |-> "value", value |-> Str("")],
                  [name |-> "id", value |-> Str("jwt")]>>]

UnknownCb ==
    [type |-> "X509CertificateCallback",
     input |-> Arr(<<[name |-> "IDToken1", value |-> Str("")]>>),
     output |-> <<[name |-> "prompt", value |-> Txt(<<"Certificate", ":">>)]>>]

\* TextOutputCallback descriptors by message type: the three severities, a
\* value outside the map, the script type as a string and as a number
TextOutputOf(message, messageType) ==
    [type |-> "TextOutputCallback",
     output |-> <<[name |-> "message", value |-> message],
                  [name |-> "messageType", value |-> messageType]>>]
MessageTypes == {Str("0"), Str("1"), Str("2"), Str("3"), Str("4"), Num(4)}
TextOutputKinds ==
    {TextOutputOf(Str("window.x = 1;"), mt) : mt \in MessageTypes}

\* ConfirmationCallback descriptors: one option and three, without a
\* defaultOption output and with each index as its value
ConfirmationOf(options, defaultOption) ==
    [type |-> "ConfirmationCallback",
     input |-> Arr(<<[name |-> "IDToken2", value |-> Num(0)]>>),
     output |-> <<[name |-> "options", value |-> Arr(options)]>>
                \o [k \in 1..Cardinality(defaultOption) |->
                       [name |-> "defaultOption", value |-> The(defaultOption)]]]
ConfirmationKinds ==
    {ConfirmationOf(options, d) :
        options \in {<<Str("OK")>>, <<Str("Yes"), Str("No"), Str("Cancel")>>},
        d \in Opt({Num(0), Num(1), Num(2)})}

\* NameCallback descriptors: a prompt with a colon inside and at its end, a
\* prompt without a colon, an input value with a double quote in it
NameOf(value, prompt) ==
    [type |-> "NameCallback",
     input |-> Arr(<<[name |-> "IDToken1", value |-> value]>>),
     output |-> <<[name |-> "prompt", value |-> prompt]>>]
NameKinds ==
    {NameOf(Str(""), Txt(<<"Realm", ":", " user", ":">>)),
     NameOf(Str("alice"), Txt(<<"User Name">>)),
     NameOf(Txt(<<"a", DoubleQuote, "b">>), Txt(<<"User Name", ":">>))}

\* a ReCaptchaCallback whose site key is not the first of its outputs
ReCaptchaUriFirstCb ==
    [type |-> "ReCaptchaCallback",
     input |-> Arr(<<[name |-> "IDToken4", value |-> Str("")]>>),
     output |-> <<[name |-> "reCaptchaApiUri",
                   value |-> Str("https://www.google.com/recaptcha/api.js")],
                  [name |-> "reCaptchaSiteKey", value |-> Str("site-key")]>>]

\* a descriptor of a type renderCallback has no case for, with an input value
\* that holds a double quote and a prompt without a colon
UnknownOf(value, prompt) ==
    [type |-> "DeviceProfileCallback",
     input |-> Arr(<<[name |-> "IDToken1", value |-> value]>>),
     output |-> <<[name |-> "prompt", value |-> prompt]>>]
UnknownQuotedCb == UnknownOf(Txt(<<"a", DoubleQuote, "b">>), Txt(<<"Profile">>))

\* RedirectCallback descriptors with redirectData: the object of keys and
\* values the server sends, and an array
RedirectOf(redirectData) ==
    [type |-> "RedirectCallback",
     output |-> <<[name |-> "redirectUrl", value |-> Str("https://idp.example/sso")],
                  [name |-> "redirectMethod", value |-> Str("POST")],
                  [name |-> "redirectData", value |-> redirectData]>>]
RedirectKinds ==
    {RedirectOf(Obj([SAMLRequest |-> Str("abc")])), RedirectOf(Arr(<<Str("abc")>>))}

BaseCatalog ==
    {NameCb, PasswordCb, TextInputCb, TextOutputCb, ScriptCb, ConfirmCb, ChoiceCb,
     HiddenCb, RedirectCb, PollingCb, PollingCbWithInput, ReCaptchaCb, UnknownCb}

RenderCatalog ==
    BaseCatalog \cup TextOutputKinds \cup ConfirmationKinds \cup NameKinds \cup RedirectKinds
    \cup {ReCaptchaUriFirstCb}

FlowCatalog ==
    {NameCb, ConfirmCb, PollingCb, PollingCbWithInput, RedirectCb, ReCaptchaCb, HiddenCb}

MkExchange(tokenId, authId, code, callbacks) ==
    LET dom == (IF tokenId # {} THEN {"tokenId"} ELSE {})
               \cup (IF authId # {} THEN {"authId"} ELSE {})
               \cup (IF code # {} THEN {"code"} ELSE {})
               \cup (IF callbacks # {} THEN {"callbacks"} ELSE {})
    IN  [f \in dom |-> CASE f = "tokenId" -> The(tokenId)
                         [] f = "authId" -> The(authId)
                         [] f = "code" -> The(code)
                         [] f = "callbacks" -> The(callbacks)]

\* the exchange with the header, stage and template the server names for it
WithStage(cc, header, stage, template) ==
    [f \in DOMAIN cc \cup {"header", "stage", "template"} |->
        CASE f = "header" -> header
          [] f = "stage" -> stage
          [] f = "template" -> template
          [] OTHER -> cc[f]]

\* every combination of the three markers, without descriptors and with one
MarkerResponses ==
    {MkExchange(tok, auth, code, cbs) :
        tok \in Opt({Str(""), Str("tok")}), auth \in Opt({Str("auth")}),
        code \in Opt({Num(401), Num(400)}), cbs \in Opt({<<NameCb>>})}

\* a continuation with every short descriptor sequence, a success, a failure
FlowResponses ==
    {MkExchange({}, {Str("auth")}, {}, {cbs}) : cbs \in SeqsUpTo(FlowCatalog, MaxCallbacks)}
    \cup {MkExchange({Str("tok")}, {}, {}, {}), MkExchange({}, {}, {Num(401)}, {})}

\* one continuation per descriptor sequence over every kind of descriptor
RenderResponses ==
    {MkExchange({}, {Str("auth")}, {}, {cbs}) : cbs \in SeqsUpTo(RenderCatalog, MaxCallbacks)}

-----------------------------------------------------------------------------
(* State machine *)

PriorContent == [el |-> "div", text |-> Str("prior content")]

Quiet ==
    [op |-> "init", by |-> "none", resp |-> Undefined, request |-> NoRequest,
     entries |-> <<>>,
     successCalled |-> FALSE, failureCalled |-> FALSE,
     renderCalled |-> FALSE, mounted |-> FALSE, postRenderCalled |-> FALSE,
     loginButtonHidden |-> FALSE, postRenderArgs |-> <<>>, rejected |-> FALSE]

Init ==
    /\ successHandler \in BOOLEAN
    /\ failureHandler \in BOOLEAN
    /\ postRenderHandler \in BOOLEAN
    /\ overridden = {}
    /\ loginElement \in {[supplied |-> s, attached |-> a, children |-> <<PriorContent>>] :
                            s \in BOOLEAN, a \in BOOLEAN}
    /\ loginElement.attached => loginElement.supplied
    /\ currentCallbacks = Undefined
    /\ inFlight = <<>>
    /\ pendingRenders = <<>>
    /\ pollingInProgress = FALSE
    /\ timers = 0
    /\ redirectForm = NoForm
    /\ lastResponse = Undefined
    /\ sent = 0
    /\ ev = Quiet

\* the construction the README shows: both handlers and a mount element taken
\* from the document
ReadmeInit == Init /\ successHandler /\ failureHandler /\ loginElement.attached

CanSend(maxSent) == sent < maxSent /\ Len(inFlight) < MaxInFlight

RemoveAt(q, i) == SubSeq(q, 1, i - 1) \o SubSeq(q, i + 1, Len(q))

\* this.currentCallbacks = {} : what startLogin submits
startLoginExchange_keep(cc) == cc
startLoginExchange(cc) == EmptyExchange

\* startLogin(): reset the exchange to {} and submit it
StartLogin(maxSent) ==
    /\ CanSend(maxSent)
    /\ currentCallbacks' = startLoginExchange(currentCallbacks)
    /\ inFlight' = Append(inFlight, [by |-> "startLogin", body |-> JSONstringify(currentCallbacks')])
    /\ sent' = sent + 1
    /\ ev' = [Quiet EXCEPT !.op = "startLogin", !.by = "startLogin",
                           !.request = fetchRequest(currentCallbacks')]
    /\ UNCHANGED <<config, loginElement, pendingRenders, pollingInProgress, timers,
                   redirectForm, lastResponse>>

\* a submit event on the mounted form: handleLoginSubmit, then submitCallbacks
\* unless the copying threw
HandleLoginSubmit(maxSent, typed) ==
    /\ CanSend(maxSent)
    /\ loginElement.supplied
    /\ loginElement.children # <<>>
    /\ IsForm(loginElement.children[1])
    /\ LET form == loginElement.children[1]
           fields == {i \in DOMAIN form.children : IsField(form.children[i])}
       IN
       \E touched \in [fields -> typed \cup {Keep}] :
          /\ \A i \in fields : ~IsTyped(form.children[i]) => touched[i] = Keep
          /\ LET edits == [i \in DOMAIN form.children |->
                             IF i \in fields THEN touched[i] ELSE Keep]
                 entries == formData(form.children, edits, 1)
                 copied == copyEntries(currentCallbacks, entries)
             IN  /\ currentCallbacks' = copied.cc
                 /\ IF copied.fault
                    THEN /\ UNCHANGED <<inFlight, sent>>
                         /\ ev' = [Quiet EXCEPT !.op = "submit", !.by = "handleLoginSubmit",
                                                !.entries = entries, !.rejected = TRUE]
                    ELSE /\ inFlight' = Append(inFlight,
                                [by |-> "handleLoginSubmit", body |-> JSONstringify(copied.cc)])
                         /\ sent' = sent + 1
                         /\ ev' = [Quiet EXCEPT !.op = "submit", !.by = "handleLoginSubmit",
                                                !.entries = entries,
                                                !.request = fetchRequest(copied.cc)]
    /\ UNCHANGED <<config, loginElement, pendingRenders, pollingInProgress, timers,
                   redirectForm, lastResponse>>

\* which branch handleCallbackResponse takes
handleCallbackResponse_failureFirst(cc) ==
    IF failure(cc) /\ failureHandler THEN "failureHandler"
    ELSE IF success(cc) /\ successHandler THEN "successHandler"
    ELSE "renderAllCallbacks"
handleCallbackResponse(cc) ==
    IF success(cc) /\ successHandler THEN "successHandler"
    ELSE IF failure(cc) /\ failureHandler THEN "failureHandler"
    ELSE "renderAllCallbacks"

\* the tail of the chain once every renderCallback promise has resolved:
\* joinRenderedCallbacks, renderHandler, postRenderHandler
postRenderArguments(cc) == <<Get(cc, "header"), Get(cc, "stage"), Get(cc, "template")>>

finishRender(results, e, cc) ==
    LET joined == joinRenderedCallbacks(results)
    IN  IF joined.fault \/ renderHandlerThrows
        THEN /\ loginElement' = loginElement
             /\ ev' = [e EXCEPT !.rejected = TRUE]
        ELSE /\ loginElement' = renderHandler(joined.form)
             /\ ev' = [e EXCEPT !.mounted = loginElement.supplied,
                                !.loginButtonHidden =
                                    loginElement.supplied /\ hidesLoginButton(joined.form.children),
                                !.postRenderCalled = postRenderHandler,
                                !.postRenderArgs =
                                    IF postRenderHandler THEN postRenderArguments(cc)
                                    ELSE <<>>]

\* the fetch promise of request i resolves with JSON: store it, classify it
ReceiveResponse(responses, asyncs) ==
    \E i \in DOMAIN inFlight, resp \in responses, async \in asyncs :
    \E r \in {renderAllCallbacks(resp)} :
       LET e == [Quiet EXCEPT !.op = "response", !.by = inFlight[i].by, !.resp = resp]
           branch == handleCallbackResponse(resp)
       IN  /\ inFlight' = RemoveAt(inFlight, i)
           /\ lastResponse' = resp
           /\ async => Len(pendingRenders) < MaxPending /\ branch = "renderAllCallbacks" /\ ~r.thrown
           /\ CASE branch = "successHandler" ->
                     /\ currentCallbacks' = resp
                     /\ ev' = [e EXCEPT !.successCalled = TRUE]
                     /\ UNCHANGED <<loginElement, pendingRenders, timers, redirectForm>>
                [] branch = "failureHandler" ->
                     /\ currentCallbacks' = resp
                     /\ ev' = [e EXCEPT !.failureCalled = TRUE]
                     /\ UNCHANGED <<loginElement, pendingRenders, timers, redirectForm>>
                [] OTHER ->
                     /\ currentCallbacks' = r.cc
                     /\ timers' = IF timers + r.timers > MaxTimers THEN MaxTimers ELSE timers + r.timers
                     /\ redirectForm' = IF r.redirect # <<>> THEN r.redirect[1] ELSE redirectForm
                     /\ IF r.thrown
                        THEN /\ ev' = [e EXCEPT !.renderCalled = TRUE, !.rejected = TRUE]
                             /\ UNCHANGED <<loginElement, pendingRenders>>
                        ELSE IF async
                        THEN /\ pendingRenders' = Append(pendingRenders,
                                                          [results |-> r.results, resp |-> resp])
                             /\ ev' = [e EXCEPT !.renderCalled = TRUE]
                             /\ UNCHANGED loginElement
                        ELSE /\ finishRender(r.results, [e EXCEPT !.renderCalled = TRUE], r.cc)
                             /\ UNCHANGED pendingRenders
           /\ UNCHANGED <<config, pollingInProgress, sent>>

\* the promises of an overridden, asynchronous rendering method resolve
RenderResolves ==
    \E j \in DOMAIN pendingRenders :
       /\ pendingRenders' = RemoveAt(pendingRenders, j)
       /\ finishRender(pendingRenders[j].results,
                       [Quiet EXCEPT !.op = "rendered", !.resp = pendingRenders[j].resp],
                       currentCallbacks)
       /\ UNCHANGED <<config, currentCallbacks, inFlight, pollingInProgress, timers,
                      redirectForm, lastResponse, sent>>

\* the fetch promise rejects, or resp.json() rejects on a body that is not JSON
TransportError ==
    \E i \in DOMAIN inFlight :
       /\ inFlight' = RemoveAt(inFlight, i)
       /\ ev' = [Quiet EXCEPT !.op = "transportError", !.by = inFlight[i].by, !.rejected = TRUE]
       /\ UNCHANGED <<config, loginElement, currentCallbacks, pendingRenders,
                      pollingInProgress, timers, redirectForm, lastResponse, sent>>

\* the embedder assigns a rendering method on the instance
Overridable == {"renderNameCallback", "renderPasswordCallback"}
Override ==
    \E method \in Overridable \ overridden :
       /\ overridden' = overridden \cup {method}
       /\ ev' = [Quiet EXCEPT !.op = "override"]
       /\ UNCHANGED <<successHandler, failureHandler, postRenderHandler, loginElement,
                      currentCallbacks, inFlight, pendingRenders, pollingInProgress,
                      timers, redirectForm, lastResponse, sent>>

\* the setTimeout callback of a PollingWaitCallback runs
PollingTimeout_resubmits ==
    /\ timers > 0
    /\ CanSend(MaxRequests)
    /\ timers' = timers - 1
    /\ pollingInProgress' = TRUE
    /\ inFlight' = Append(inFlight, [by |-> "timer", body |-> JSONstringify(currentCallbacks)])
    /\ sent' = sent + 1
    /\ ev' = [Quiet EXCEPT !.op = "timer", !.request = fetchRequest(currentCallbacks)]
    /\ UNCHANGED <<config, loginElement, currentCallbacks, pendingRenders,
                   redirectForm, lastResponse>>
PollingTimeout ==
    /\ timers > 0
    /\ timers' = timers - 1
    /\ pollingInProgress' = TRUE
    /\ ev' = [Quiet EXCEPT !.op = "timer"]
    /\ UNCHANGED <<config, loginElement, currentCallbacks, inFlight, pendingRenders,
                   redirectForm, lastResponse, sent>>

-----------------------------------------------------------------------------
(* The session driver under every combination of the response markers, with *)
(* the default (synchronous) rendering methods                              *)

startLogin == StartLogin(MaxRequests)
handleLoginSubmit == HandleLoginSubmit(MaxRequests, {Str("alice")})
receiveResponse == ReceiveResponse(MarkerResponses, {FALSE})
transportError == TransportError

Next ==
    \/ startLogin
    \/ handleLoginSubmit
    \/ receiveResponse
    \/ transportError

Spec == Init /\ [][Next]_vars

-----------------------------------------------------------------------------
(* Login flows over the descriptor catalog *)

flowStartLogin == StartLogin(MaxRequests)
flowSubmit == HandleLoginSubmit(MaxRequests, UserValues)
flowResponse == ReceiveResponse(FlowResponses, {FALSE})
flowTransportError == TransportError
flowPollingTimeout == PollingTimeout

FlowNext ==
    \/ flowStartLogin
    \/ flowSubmit
    \/ flowResponse
    \/ flowTransportError
    \/ flowPollingTimeout

FlowSpec == ReadmeInit /\ [][FlowNext]_vars

-----------------------------------------------------------------------------
(* One round over every kind of descriptor: what a response renders to *)

renderStartLogin == StartLogin(1)
renderResponse == ReceiveResponse(RenderResponses, {FALSE})
renderPollingTimeout == PollingTimeout

RenderNext ==
    \/ renderStartLogin
    \/ renderResponse
    \/ renderPollingTimeout

RenderSpec == ReadmeInit /\ [][RenderNext]_vars

-----------------------------------------------------------------------------
(* Login flows of an instance whose rendering methods the embedder replaces *)

OverrideCatalog == {NameCb, PasswordCb, UnknownCb, UnknownQuotedCb}
OverrideResponses ==
    {MkExchange({}, {Str("auth")}, {}, {cbs}) : cbs \in SeqsUpTo(OverrideCatalog, MaxCallbacks)}
    \cup {MkExchange({Str("tok")}, {}, {}, {})}

overrideMethod == Override
overrideStartLogin == StartLogin(MaxRequests)
overrideSubmit == HandleLoginSubmit(MaxRequests, {Str("alice")})
overrideResponse == ReceiveResponse(OverrideResponses, {FALSE})

OverrideNext ==
    \/ overrideMethod
    \/ overrideStartLogin
    \/ overrideSubmit
    \/ overrideResponse

OverrideSpec == ReadmeInit /\ [][OverrideNext]_vars

-----------------------------------------------------------------------------
(* Login flows whose rendering may resolve later: a rendering method the    *)
(* embedder replaced returns a promise that is still pending                *)

FirstStage ==
    WithStage(MkExchange({}, {Str("auth")}, {}, {<<NameCb>>}),
              Str("Sign in"), Str("DataStore1"), Str(""))
SecondStage ==
    WithStage(MkExchange({}, {Str("auth")}, {}, {<<PasswordCb, NameCb>>}),
              Str("Verify"), Str("DataStore2"), Str(""))
TokenWithCallbacks ==
    WithStage(MkExchange({Str("tok")}, {Str("auth")}, {}, {<<PasswordCb>>}),
              Str("Done"), Str("DataStore3"), Str(""))

AsyncResponses ==
    {FirstStage, SecondStage, TokenWithCallbacks,
     MkExchange({Str("tok")}, {}, {}, {}), MkExchange({}, {}, {Num(401)}, {})}

asyncStartLogin == StartLogin(MaxRequests)
asyncSubmit == HandleLoginSubmit(MaxRequests, {Str("alice")})
asyncResponse == ReceiveResponse(AsyncResponses, BOOLEAN)
asyncRenderResolves == RenderResolves

AsyncNext ==
    \/ asyncStartLogin
    \/ asyncSubmit
    \/ asyncResponse
    \/ asyncRenderResolves

AsyncSpec == Init /\ [][AsyncNext]_vars

-----------------------------------------------------------------------------
(* Properties of the session driver *)

IsResponse == ev.op = "response"
TokenTruthy(cc) == Truthy(Get(cc, "tokenId"))
AuthIdAbsent(cc) == ~Has(cc, "authId")
Code401(cc) == Has(cc, "code") /\ cc.code = Num(401)

\* C1: a stored response whose tokenId is truthy is handled as a success
\* whatever its other fields are: on an instance with a success handler the
\* handler is invoked, the failure handler is not, and nothing is rendered
\* (renderAllCallbacks is not called, no form is mounted, the post-render
\* handler is not invoked).
C1_TruthyTokenIsSuccess ==
    (IsResponse /\ TokenTruthy(ev.resp) /\ successHandler) =>
        /\ ev.successCalled
        /\ ~ev.failureCalled
        /\ ~ev.renderCalled /\ ~ev.mounted /\ ~ev.postRenderCalled
        /\ currentCallbacks = ev.resp

\* a success handler runs for a response that also carries the failure markers
C1_Witness ==
    /\ IsResponse /\ ev.successCalled
    /\ AuthIdAbsent(ev.resp) /\ Code401(ev.resp) /\ Has(ev.resp, "callbacks")

\* C2 as stated: every response without authId and with code 401 makes the
\* configured failure handler run, and a response with an authId never does.
C2_Original ==
    /\ (IsResponse /\ AuthIdAbsent(ev.resp) /\ Code401(ev.resp) /\ failureHandler)
            => ev.failureCalled
    /\ (IsResponse /\ ~AuthIdAbsent(ev.resp)) => ~ev.failureCalled

\* C2, amended: a response without authId, with code 401 and without a truthy
\* tokenId makes the configured failure handler run (and neither the success
\* handler nor the renderer); a response that has an authId is never a
\* failure and never makes the failure handler run, also with code 401.
C2_FailureUnlessToken ==
    /\ (IsResponse /\ AuthIdAbsent(ev.resp) /\ Code401(ev.resp)
            /\ ~TokenTruthy(ev.resp) /\ failureHandler)
            => (ev.failureCalled /\ ~ev.successCalled /\ ~ev.renderCalled /\ ~ev.mounted)
    /\ (IsResponse /\ ~AuthIdAbsent(ev.resp))
            => (~ev.failureCalled /\ ~failure(ev.resp))

\* the failure handler runs for a response whose tokenId is present but empty
C2_Witness ==
    /\ IsResponse /\ ev.failureCalled
    /\ Has(ev.resp, "tokenId") /\ ~TokenTruthy(ev.resp)

\* C3: renderAllCallbacks is called for a response only if the response is
\* neither a success (truthy tokenId) nor a failure (no authId, code 401),
\* with or without the optional handlers.
C3_RenderOnlyContinuation ==
    (IsResponse /\ ev.renderCalled) => (~success(ev.resp) /\ ~failure(ev.resp))

\* C4: at most one request is in flight at any time.
C4_NoParallelRequests == Len(inFlight) <= 1

-----------------------------------------------------------------------------
(* Properties of the descriptor sequence *)

Descriptors(cc) == IF Has(cc, "callbacks") THEN cc.callbacks ELSE <<>>
WithoutInput(d) == [f \in DOMAIN d \ {"input"} |-> d[f]]

\* same count, same order, same type and output at every position
SameDescriptors(a, b) ==
    /\ Len(a) = Len(b)
    /\ \A i \in DOMAIN a : WithoutInput(a[i]) = WithoutInput(b[i])

SubmitSent == ev.op = "submit" /\ ev.request # NoRequest

\* C5 as stated: the body of every submission request holds the descriptors of
\* the most recently received response, same order and count, type and output
\* unchanged; and rendering leaves the descriptor sequence of the current
\* exchange as the response gave it.
C5_Original ==
    /\ SubmitSent =>
          SameDescriptors(Descriptors(ev.request.body.json), Descriptors(lastResponse))
    /\ IsResponse => Descriptors(currentCallbacks) = Descriptors(ev.resp)

-----------------------------------------------------------------------------
(* Properties of the form binder *)

\* a field name of the shape callback_<digits>, and the index it carries
IsCallbackField(name) == name.pre = "callback_" /\ name.digits # <<>> /\ name.post = ""
FieldIndex(name) == parseInt(name.digits)
FieldsFor(entries, n) ==
    {k \in DOMAIN entries : IsCallbackField(entries[k].name) /\ FieldIndex(entries[k].name) = n}

\* C6: on a form submit that sends its request, for every form field named
\* callback_N with value v the descriptor at index N of the exchange has
\* input[0].value = v and the request body is that exchange; fields with other
\* names change nothing, and descriptors without a matching field, like the
\* other properties of the exchange, are as they were before the event.
C6_SubmitCopiesFields ==
    [][(ev'.op = "submit" /\ ev'.request # NoRequest) =>
          LET body == ev'.request.body.json
              entries == ev'.entries
          IN  /\ body = currentCallbacks'
              /\ DOMAIN body = DOMAIN currentCallbacks
              /\ \A f \in DOMAIN body \ {"callbacks"} : body[f] = currentCallbacks[f]
              /\ Len(Descriptors(body)) = Len(Descriptors(currentCallbacks))
              /\ \A k \in DOMAIN entries :
                    IsCallbackField(entries[k].name) =>
                       /\ FieldIndex(entries[k].name) + 1 \in DOMAIN Descriptors(body)
                       /\ Input0Value(body.callbacks[FieldIndex(entries[k].name) + 1])
                             = entries[k].value
              /\ \A j \in DOMAIN Descriptors(body) :
                    IF FieldsFor(entries, j - 1) = {}
                    THEN body.callbacks[j] = currentCallbacks.callbacks[j]
                    ELSE WithoutInput(body.callbacks[j])
                            = WithoutInput(currentCallbacks.callbacks[j])
      ]_vars

\* a submission went out whose form had a typed callback_N field, a field of
\* another name, and a descriptor that no field names
C6_Witness ==
    /\ SubmitSent
    /\ \E k \in DOMAIN ev.entries : ~IsCallbackField(ev.entries[k].name)
    /\ \E k \in DOMAIN ev.entries :
          IsCallbackField(ev.entries[k].name) /\ ev.entries[k].value \in UserValues \cup {Str("token")}
    /\ \E j \in DOMAIN Descriptors(ev.request.body.json) : FieldsFor(ev.entries, j - 1) = {}

-----------------------------------------------------------------------------
(* Properties of the rendered form *)

MountedForm == loginElement.children[1]
FormUnits == SelectSeq(MountedForm.children, LAMBDA u : u # Br)
IsSubmitControl(u) == u.el = "input" /\ u.type = "submit"

\* the units of the original descriptors, each rendered at its own index
OriginalUnits(cbs) == flatten([i \in DOMAIN cbs |-> renderCallback(cbs[i], i - 1)])

\* the unit of a ConfirmationCallback with the single option "Login" at index n
LoginUnit(n) ==
    [el |-> "input", type |-> "submit", name |-> CallbackName(n), index |-> 0,
     value |-> Str("Login")]

HasButtonType(cbs) == \E i \in DOMAIN cbs : cbs[i].type \in LoginButtonTypes

\* C7: for a continuation whose descriptors hold no ConfirmationCallback,
\* PollingWaitCallback or RedirectCallback the form is rendered and its units
\* are the units of the original descriptors in their order followed by
\* exactly one synthesized "Login" confirmation unit; when a descriptor has
\* one of the three types the form, if one is rendered, holds the units of the
\* original descriptors only.
C7_OneLoginButtonLast ==
    (IsResponse /\ ev.renderCalled /\ Has(ev.resp, "callbacks")) =>
        LET cbs == ev.resp.callbacks
            login == LoginUnit(Len(cbs))
        IN  IF ~HasButtonType(cbs)
            THEN /\ ev.mounted
                 /\ FormUnits = OriginalUnits(cbs) \o <<login>>
                 /\ Cardinality({k \in DOMAIN FormUnits : FormUnits[k] = login}) = 1
            ELSE ev.mounted =>
                    /\ FormUnits = OriginalUnits(cbs)
                    /\ \A k \in DOMAIN FormUnits : FormUnits[k] # login

\* the form of two descriptors of different kinds ends with the login button
C7_Witness ==
    /\ IsResponse /\ ev.mounted
    /\ Len(Descriptors(ev.resp)) = 2
    /\ ev.resp.callbacks[1].type # ev.resp.callbacks[2].type
    /\ ~HasButtonType(ev.resp.callbacks)
    /\ Len(FormUnits) >= 3
    /\ FormUnits[Len(FormUnits)] = LoginUnit(2)

\* C8 as stated: every form rendered for a continuation response contains at
\* least one submit control.
C8_EveryFormHasSubmit ==
    (IsResponse /\ ev.mounted) =>
        \E k \in DOMAIN MountedForm.children : IsSubmitControl(MountedForm.children[k])

-----------------------------------------------------------------------------
(* Properties of the session driver *)

\* C9 as stated: when the request of startLogin or submitCallbacks fails in
\* transport or its response is not JSON, the promise rejects, no handler is
\* invoked and nothing is rendered, no request is sent again, and the stored
\* exchange is the one the failed request was sent with.
C9_TransportErrorKeepsExchange ==
    [][ev'.op = "transportError" =>
          \E i \in DOMAIN inFlight :
             /\ inFlight' = RemoveAt(inFlight, i)
             /\ ev'.rejected
             /\ ~ev'.successCalled /\ ~ev'.failureCalled /\ ~ev'.postRenderCalled
             /\ ~ev'.renderCalled /\ ~ev'.mounted
             /\ loginElement' = loginElement
             /\ sent' = sent
             /\ currentCallbacks' = inFlight[i].body.json
      ]_vars

BranchesTaken ==
    {b \in {"successCalled", "failureCalled", "renderCalled"} : ev[b]}

\* C10: in every state startLogin sends a request whose body is the empty
\* exchange {} and leaves {} as the current exchange; the JSON response to
\* that request becomes the current exchange as a whole and is handed to
\* handleCallbackResponse, which takes exactly one of its branches.
C10_StartLoginStartsAfresh ==
    /\ ev.op = "startLogin" =>
          /\ ev.request.body = JSONstringify(EmptyExchange)
          /\ currentCallbacks = EmptyExchange
          /\ inFlight # <<>>
          /\ inFlight[Len(inFlight)] = [by |-> "startLogin", body |-> ev.request.body]
    /\ (IsResponse /\ ev.by = "startLogin") =>
          /\ currentCallbacks = ev.resp
          /\ lastResponse = ev.resp
          /\ Cardinality(BranchesTaken) = 1

\* the response to a startLogin made while a form of an earlier round is
\* mounted has been stored, and it names none of the properties of a success
C10_Witness ==
    /\ IsResponse /\ ev.by = "startLogin"
    /\ sent >= 2
    /\ IsForm(loginElement.children[1])
    /\ ev.failureCalled
    /\ ~Has(currentCallbacks, "callbacks")

-----------------------------------------------------------------------------
(* Properties of the mount element *)

IsContinuation(cc) == ~TokenTruthy(cc) /\ ~(AuthIdAbsent(cc) /\ Code401(cc))

\* the form a round renders for its descriptors: their units, the login
\* button when it is due, a line break after each unit
ExpectedUnits(cbs) ==
    OriginalUnits(cbs) \o (IF HasButtonType(cbs) THEN <<>> ELSE <<LoginUnit(Len(cbs))>>)
NewForm(cbs) ==
    [el |-> "form", children |-> appendWithBreaks(ExpectedUnits(cbs)),
     onsubmit |-> "handleLoginSubmit"]

FormsMounted == {k \in DOMAIN loginElement.children : loginElement.children[k].el = "form"}

-----------------------------------------------------------------------------
(* Properties of the rendering of one descriptor *)

OutputValue(callback, name) ==
    LET found == {k \in DOMAIN callback.output : callback.output[k].name = name}
    IN  IF found = {} THEN JsUndefined
        ELSE callback.output[CHOOSE k \in found : \A j \in found : k <= j].value

\* a continuation was received and its descriptors were handed to the renderer
Rendering == IsResponse /\ ev.renderCalled /\ Has(ev.resp, "callbacks")
OfType(type) == {i \in DOMAIN Descriptors(ev.resp) : ev.resp.callbacks[i].type = type}
InForm(unit) == \E k \in DOMAIN FormUnits : FormUnits[k] = unit

Severity(messageType) ==
    CASE messageType = Str("0") -> Str("INFORMATION")
      [] messageType = Str("1") -> Str("WARNING")
      [] messageType = Str("2") -> Str("ERROR")

\* C12: a TextOutputCallback whose messageType is the string "4" renders as a
\* script element whose text is the message output; with any other
\* messageType it renders as a static element holding the message, whose
\* class is INFORMATION for "0", WARNING for "1" and ERROR for "2"; the
\* rendered unit is in the mounted form.
C12_TextOutputByMessageType ==
    Rendering =>
       \A i \in OfType("TextOutputCallback") :
          LET cb == ev.resp.callbacks[i]
              mt == OutputValue(cb, "messageType")
              units == renderCallback(cb, i - 1).units
          IN  /\ Len(units) = 1
              /\ ev.mounted => InForm(units[1])
              /\ units[1].text = OutputValue(cb, "message")
              /\ IF mt = Str("4")
                 THEN units[1].el = "script"
                 ELSE /\ units[1].el = "div"
                      /\ mt \in {Str("0"), Str("1"), Str("2")} =>
                            units[1].class = Severity(mt)

\* a form holding a script fragment and an ERROR message
C12_Witness ==
    /\ Rendering /\ ev.mounted
    /\ \E i, j \in OfType("TextOutputCallback") :
          /\ OutputValue(ev.resp.callbacks[i], "messageType") = Str("4")
          /\ OutputValue(ev.resp.callbacks[j], "messageType") = Str("2")
    /\ \E k \in DOMAIN FormUnits : FormUnits[k].el = "script"
    /\ \E k \in DOMAIN FormUnits :
          FormUnits[k].el = "div" /\ FormUnits[k].class = Str("ERROR")

\* the options of a ConfirmationCallback that are passed on as the default one
MarkedDefault(cb) ==
    LET opts == OutputValue(cb, "options").items
    IN  {k \in DOMAIN opts : isDefaultArgument(cb, opts, k - 1)}

\* the units are in the form, next to each other and in their order
InFormInOrder(units) ==
    \E offset \in 0..Len(FormUnits) :
       /\ offset + Len(units) <= Len(FormUnits)
       /\ \A k \in DOMAIN units : FormUnits[offset + k] = units[k]

\* the attributes of the markup of renderConfirmationCallbackOption
OptionAttributes == {"el", "type", "name", "index", "value"}

TextFieldTypes == {"NameCallback", "PasswordCallback", "TextInputCallback"}

\* the prompt output without its trailing colon
StrippedPrompt(cb) ==
    LET cs == OutputValue(cb, "prompt").cs
    IN  Txt(IF cs # <<>> /\ cs[Len(cs)] = ":" THEN SubSeq(cs, 1, Len(cs) - 1) ELSE cs)

\* C14 as stated: a NameCallback, PasswordCallback or TextInputCallback at
\* index i renders one input named callback_i whose value is the descriptor's
\* input value and whose placeholder or label is the prompt output without
\* its trailing colon; a single NameCallback with empty input and the prompt
\* "User Name:" gives a form of one text input with the placeholder
\* "User Name" and the login button.
C14_TextFieldsCarryValueAndPrompt ==
    Rendering =>
       /\ \A i \in DOMAIN ev.resp.callbacks :
             ev.resp.callbacks[i].type \in TextFieldTypes =>
                LET cb == ev.resp.callbacks[i]
                    units == renderCallback(cb, i - 1).units
                IN  /\ Len(units) = 1
                    /\ units[1].name = CallbackName(i - 1)
                    /\ units[1].value = Input0Value(cb)
                    /\ \E a \in {"placeholder", "label"} :
                          Has(units[1], a) /\ units[1][a] = StrippedPrompt(cb)
       /\ ev.resp.callbacks = <<NameCb>> =>
             FormUnits = <<[el |-> "input", type |-> "text", name |-> CallbackName(0),
                            value |-> Str(""), placeholder |-> Txt(<<"User Name">>)],
                           LoginUnit(1)>>

-----------------------------------------------------------------------------
(* Properties of the requests *)

RequestSent == ev.op \in {"startLogin", "submit"} /\ ev.request # NoRequest

\* C15: every request sent by startLogin and by a form submit includes
\* credentials and the header accept-api-version: protocol=1.0,resource=2.1,
\* declares content-type: application/json, and has as its body the JSON
\* text of the current exchange; it is the request put in flight.
C15_RequestShape ==
    RequestSent =>
        /\ ev.request.credentials = "include"
        /\ <<"accept-api-version", "protocol=1.0,resource=2.1">> \in ev.request.headers
        /\ <<"content-type", "application/json">> \in ev.request.headers
        /\ ev.request.body = [json |-> currentCallbacks]
        /\ inFlight # <<>>
        /\ inFlight[Len(inFlight)].body = ev.request.body

\* a submission that carries the authId and a typed value
C15_Witness ==
    /\ SubmitSent
    /\ Has(ev.request.body.json, "authId")
    /\ Descriptors(ev.request.body.json) # <<>>
    /\ Input0Value(ev.request.body.json.callbacks[1]) = Str("alice")

-----------------------------------------------------------------------------
(* Properties of replaced rendering methods *)

SwitchTypes ==
    {"NameCallback", "PasswordCallback", "TextInputCallback", "TextOutputCallback",
     "ConfirmationCallback", "ChoiceCallback", "HiddenValueCallback", "RedirectCallback",
     "PollingWaitCallback", "ReCaptchaCallback"}

RenderedByReplacement(u, method) == Has(u, "by") /\ u.by = method
RenderedByDefault(u) == ~Has(u, "by")

\* classification and submission as on an instance without replacements
DriverAsBefore ==
    /\ IsResponse =>
          /\ ev.successCalled <=> TokenTruthy(ev.resp)
          /\ ev.renderCalled <=> IsContinuation(ev.resp)
          /\ ~ev.failureCalled
          /\ currentCallbacks = ev.resp
    /\ SubmitSent =>
          /\ ev.request = [mode |-> "cors", method |-> "POST", credentials |-> "include",
                           headers |-> {ApiVersionHeader, ContentTypeHeader},
                           body |-> [json |-> currentCallbacks]]
          /\ \A k \in DOMAIN ev.entries :
                IsCallbackField(ev.entries[k].name) =>
                   Input0Value(currentCallbacks.callbacks[FieldIndex(ev.entries[k].name) + 1])
                      = ev.entries[k].value

-----------------------------------------------------------------------------
(* Properties of the redirect and of the polling wait *)

\* the first RedirectCallback of the response
FirstOfType(type) == CHOOSE i \in OfType(type) : \A j \in OfType(type) : i <= j

\* one hidden field per key and value of redirectData
HiddenFieldsFor(redirectData) ==
    CASE redirectData.t = "object" ->
            {[name |-> k, value |-> redirectData.props[k]] : k \in DOMAIN redirectData.props}
      [] redirectData.t = "array" ->
            {[name |-> k - 1, value |-> redirectData.items[k]] : k \in DOMAIN redirectData.items}
      [] OTHER -> {}

\* C17 as stated: in a round whose response holds a RedirectCallback, a form
\* targeting the redirectUrl output with the redirectMethod output and one
\* hidden field per key and value of redirectData is submitted; no later
\* descriptor is rendered (the timer of a later PollingWaitCallback is not
\* scheduled), no login form is attached and the post-render handler is not
\* invoked.
C17_RedirectIsTerminal ==
    (Rendering /\ OfType("RedirectCallback") # {}) =>
        LET r == FirstOfType("RedirectCallback")
            cb == ev.resp.callbacks[r]
        IN  /\ ~ev.mounted /\ ~ev.postRenderCalled
            /\ ~IsForm(loginElement.children[1])
            /\ (\A j \in 1..(r - 1) : ev.resp.callbacks[j].type # "PollingWaitCallback")
                  => timers = 0
            /\ redirectForm # NoForm
            /\ redirectForm.action = OutputValue(cb, "redirectUrl")
            /\ redirectForm.method = OutputValue(cb, "redirectMethod")
            /\ {redirectForm.fields[k] : k \in DOMAIN redirectForm.fields}
                  = HiddenFieldsFor(OutputValue(cb, "redirectData"))

\* C18: a request is sent only by a step of startLogin or of a form submit;
\* the timer of a PollingWaitCallback, when it fires, sets pollingInProgress
\* and nothing else: it sends nothing and leaves the exchange and the mount
\* element as they are; the steps after a success, a failure or a transport
\* error that send a request are steps of startLogin or of a form submit.
C18_RequestsOnlyOnDemand ==
    [][/\ (sent' # sent \/ Len(inFlight') > Len(inFlight)) =>
             /\ ev'.op \in {"startLogin", "submit"}
             /\ ev'.request # NoRequest
             /\ inFlight' = Append(inFlight, [by |-> ev'.by, body |-> ev'.request.body])
       /\ ev'.op = "timer" =>
             /\ pollingInProgress'
             /\ timers' = timers - 1
             /\ UNCHANGED <<currentCallbacks, loginElement, inFlight, sent, redirectForm, config>>
       /\ ev'.op \in {"response", "transportError"} => sent' = sent
      ]_vars

\* the timer has fired over a mounted form and an exchange with descriptors,
\* with no request in flight
C18_Witness ==
    /\ ev.op = "timer" /\ pollingInProgress
    /\ inFlight = <<>>
    /\ IsForm(loginElement.children[1])
    /\ \E i \in DOMAIN Descriptors(currentCallbacks) :
          currentCallbacks.callbacks[i].type = "PollingWaitCallback"

\* C19 as stated: a PollingWaitCallback renders to a unit that holds its
\* message output as text and holds no field that a form submit reads.
C19_PollingShowsMessage ==
    Rendering =>
       \A i \in OfType("PollingWaitCallback") :
          LET cb == ev.resp.callbacks[i]
              r == renderCallback(cb, i - 1)
          IN  /\ ~r.fault
              /\ \E k \in DOMAIN r.units :
                    Has(r.units[k], "text") /\ r.units[k].text = OutputValue(cb, "message")
              /\ \A k \in DOMAIN r.units : ~IsField(r.units[k])

\* the options of a select that the browser shows as chosen: those with the
\* selected attribute, else the first
PreSelected(u) ==
    LET marked == {k \in DOMAIN u.options : u.options[k].selected}
    IN  IF marked # {} THEN marked ELSE {k \in DOMAIN u.options : k = 1}

\* C20 as stated: a ChoiceCallback renders one selectable entry per element
\* of its choices output, in order, and exactly the entry whose index is the
\* descriptor's current input value is pre-selected.
C20_ChoicePreselectsInput ==
    Rendering =>
       \A i \in OfType("ChoiceCallback") :
          LET cb == ev.resp.callbacks[i]
              choices == OutputValue(cb, "choices").items
              units == renderCallback(cb, i - 1).units
          IN  /\ Len(units) = 1
              /\ units[1].name = CallbackName(i - 1)
              /\ Len(units[1].options) = Len(choices)
              /\ \A k \in DOMAIN choices :
                    /\ units[1].options[k].text = choices[k]
                    /\ units[1].options[k].value = k - 1
              /\ PreSelected(units[1]) = {k \in DOMAIN choices : Num(k - 1) = Input0Value(cb)}

-----------------------------------------------------------------------------
(* Properties of the hidden field *)

HiddenFieldOf(callback, index) ==
    [el |-> "input", type |-> "hidden", name |-> CallbackName(index),
     value |-> TemplateString(Input0Value(callback))]
IsHiddenFieldOf(u, callback, index) ==
    /\ u.el = "input" /\ u.type = "hidden"
    /\ u.name = HiddenFieldOf(callback, index).name
    /\ u.value = HiddenFieldOf(callback, index).value

HiddenRendered ==
    (IsResponse /\ ev.mounted) =>
        \A i \in OfType("HiddenValueCallback") :
           \E k \in DOMAIN FormUnits :
              IsHiddenFieldOf(FormUnits[k], ev.resp.callbacks[i], i - 1)

HiddenWrittenBack ==
    (ev'.op = "submit" /\ ev'.request # NoRequest) =>
        \A j \in DOMAIN Descriptors(currentCallbacks) :
           (/\ currentCallbacks.callbacks[j].type = "HiddenValueCallback"
            /\ FieldsFor(ev'.entries, j - 1) # {}) =>
               Input0Value(currentCallbacks'.callbacks[j])
                  = Input0Value(currentCallbacks.callbacks[j])

\* C21 as stated: a HiddenValueCallback at index i renders a hidden field
\* named callback_i whose value is the descriptor's current input value, and
\* submitting the form untouched writes that same input value back into the
\* descriptor.
C21_HiddenSeededFromInput == []HiddenRendered /\ [][HiddenWrittenBack]_vars

-----------------------------------------------------------------------------
(* Properties of the fallback rendering *)

\* the same descriptor under the type tag NameCallback
AsNameCallback(cb) == [cb EXCEPT !.type = "NameCallback"]
Unknown == {i \in DOMAIN Descriptors(ev.resp) : ev.resp.callbacks[i].type \notin SwitchTypes}
HasDoubleQuote(text) ==
    Has(text, "cs") /\ \E k \in DOMAIN text.cs : text.cs[k] = DoubleQuote

\* C22: a descriptor whose type is not one of the known type tags is rendered
\* exactly as a NameCallback with the same index, input value and prompt is
\* rendered, also when renderNameCallback is replaced on the instance, and
\* that unit is what the mounted form holds at its position; with the default
\* methods it is a text input named callback_i whose value and placeholder
\* are those of the NameCallback rendering: the input value and the prompt
\* without its trailing colon, when they hold no double quote.
C22_UnknownRendersAsName ==
    Rendering =>
       \A i \in Unknown :
          LET cb == ev.resp.callbacks[i]
              units == renderCallback(cb, i - 1).units
          IN  /\ renderCallback(cb, i - 1) = renderCallback(AsNameCallback(cb), i - 1)
              /\ Len(units) = 1
              /\ ev.mounted => FormUnits[i] = units[1]
              /\ units[1].name = CallbackName(i - 1)
              /\ "renderNameCallback" \notin overridden =>
                    /\ units[1].el = "input" /\ units[1].type = "text"
                    /\ units[1] = renderNameCallback(AsNameCallback(cb), i - 1,
                                                     StrippedPrompt(cb)).units[1]
                    /\ ~HasDoubleQuote(TemplateString(Input0Value(cb))) =>
                          units[1].value = Input0Value(cb)
                    /\ ~HasDoubleQuote(StrippedPrompt(cb)) =>
                          units[1].placeholder = StrippedPrompt(cb)

\* a form that holds a descriptor of an unknown type next to a NameCallback,
\* rendered with the replaced renderNameCallback
C22_Witness ==
    /\ Rendering /\ ev.mounted
    /\ "renderNameCallback" \in overridden
    /\ Unknown # {}
    /\ OfType("NameCallback") # {}
    /\ \A i \in Unknown \cup OfType("NameCallback") :
          RenderedByReplacement(FormUnits[i], "renderNameCallback")

-----------------------------------------------------------------------------
(* Properties of the joined form *)

\* the units with one line break between each two of them
RECURSIVE Interleaved(_)
Interleaved(units) ==
    IF Len(units) <= 1 THEN units ELSE <<units[1], Br>> \o Interleaved(Tail(units))

\* the units of each descriptor in descriptor order, the options of a
\* ConfirmationCallback in option order, then the login button when it is due
RECURSIVE UnitsFrom(_, _)
UnitsFrom(cbs, i) ==
    IF i > Len(cbs) THEN <<>>
    ELSE renderCallback(cbs[i], i - 1).units \o UnitsFrom(cbs, i + 1)
UnitsInOrder(cbs) ==
    UnitsFrom(cbs, 1) \o (IF HasButtonType(cbs) THEN <<>> ELSE <<LoginUnit(Len(cbs))>>)

HasUndefinedUnit(cbs) ==
    \E k \in DOMAIN UnitsInOrder(cbs) : UnitsInOrder(cbs)[k] = UndefinedNode

-----------------------------------------------------------------------------
(* Properties of the challenge widget *)

\* the types whose rendering the user acts on
InteractiveTypes ==
    {"NameCallback", "PasswordCallback", "TextInputCallback", "ConfirmationCallback",
     "ChoiceCallback", "ReCaptchaCallback"}
IsInteractive(cb) == cb.type \in InteractiveTypes \/ cb.type \notin SwitchTypes
OnlyInteractive(cbs, i) == \A j \in DOMAIN cbs : j # i => ~IsInteractive(cbs[j])

WidgetOf(i) ==
    FormUnits[CHOOSE k \in DOMAIN FormUnits :
                 /\ FormUnits[k].el = "recaptcha"
                 /\ FormUnits[k].callback_index = i - 1]

\* C24 as stated: in a mounted form with one ReCaptchaCallback, the generated
\* script hides the default submit control and submits on completion exactly
\* when the ReCaptchaCallback is the only interactive descriptor of the
\* response, whatever its index and whatever non-interactive descriptors
\* accompany it; the widget carries the site key output and the hidden field
\* is named callback_i.
C24_ReCaptchaStandalone ==
    (Rendering /\ ev.mounted /\ Cardinality(OfType("ReCaptchaCallback")) = 1) =>
        \A i \in OfType("ReCaptchaCallback") :
           /\ ev.loginButtonHidden <=> OnlyInteractive(ev.resp.callbacks, i)
           /\ standaloneMode(MountedForm.children, i - 1)
                 <=> OnlyInteractive(ev.resp.callbacks, i)
           /\ WidgetOf(i).sitekey = OutputValue(ev.resp.callbacks[i], "reCaptchaSiteKey")
           /\ WidgetOf(i).name = CallbackName(i - 1)

-----------------------------------------------------------------------------
(* Properties of the post-render handler *)

\* the event in which the rendering of a response completed: the response
\* event itself, or the later resolution of its pending promises
RenderCompleted == ev.op \in {"response", "rendered"} /\ ev.postRenderCalled

\* the rendering of this response is still pending
Deferred ==
    /\ IsResponse /\ ev.renderCalled /\ ~ev.rejected
    /\ pendingRenders # <<>>
    /\ pendingRenders[Len(pendingRenders)].resp = ev.resp
    /\ ~ev.postRenderCalled

\* a configured handler is invoked for every continuation round
PostRenderInvoked ==
    (IsResponse /\ IsContinuation(ev.resp) /\ postRenderHandler /\ ~Deferred) =>
        ev.postRenderCalled

\* it is invoked only when configured and only after the form was attached
PostRenderAfterAttach ==
    ev.postRenderCalled =>
        /\ postRenderHandler
        /\ ev.mounted
        /\ IsForm(loginElement.children[1])

\* its arguments are the header, stage and template of the current exchange
PostRenderArgsOfCurrent ==
    ev.postRenderCalled =>
        ev.postRenderArgs = <<Get(currentCallbacks, "header"), Get(currentCallbacks, "stage"),
                              Get(currentCallbacks, "template")>>

\* it is not invoked for a response that carries the markers of a success or
\* of a failure
PostRenderOnlyContinuation ==
    ev.postRenderCalled => IsContinuation(ev.resp)

\* C25 as stated: the post-render handler, when configured, is invoked once
\* in every continuation round, only after the rendered form has been
\* attached and bound, with the header, stage and template of the current
\* exchange, and never in a round classified as success or failure.
C25_PostRenderOncePerRound ==
    /\ PostRenderInvoked
    /\ PostRenderAfterAttach
    /\ PostRenderArgsOfCurrent
    /\ PostRenderOnlyContinuation

-----------------------------------------------------------------------------
(* Properties of a submit under interleavings *)

\* the responses the mounted form is the rendering of
FormSources ==
    {r \in AsyncResponses :
        Has(r, "callbacks") /\ loginElement.children = <<NewForm(r.callbacks)>>}

\* an exchange without the input values a submit writes
StripInputs(cc) ==
    [f \in DOMAIN cc |->
        IF f = "callbacks" THEN [i \in DOMAIN cc.callbacks |-> WithoutInput(cc.callbacks[i])]
        ELSE cc[f]]

\* the submit event assigned at least one field value
Wrote ==
    /\ ev.op = "submit"
    /\ \E k \in DOMAIN ev.entries :
          /\ IsCallbackField(ev.entries[k].name)
          /\ \A j \in 1..k :
                IsCallbackField(ev.entries[j].name) =>
                   CanWrite(currentCallbacks, FieldIndex(ev.entries[j].name))

\* C26 as stated: whenever handleLoginSubmit writes field values into the
\* current exchange, that exchange is the response the submitted form was
\* rendered from, under every interleaving of submit events, response
\* arrivals and render completions.
C26_SubmitWritesIntoFormSource ==
    Wrote =>
        /\ FormSources # {}
        /\ \A r \in FormSources : StripInputs(currentCallbacks) = StripInputs(r)

\* the header, stage and template of a response
StageOf(resp) == <<Get(resp, "header"), Get(resp, "stage"), Get(resp, "template")>>

\* C27 as stated: the header, stage and template passed to the post-render
\* handler are those of the response whose descriptors were rendered into
\* the form that was just attached, also when the rendering resolves after
\* another response was stored.
C27_PostRenderArgsOfRendered ==
    (ev.postRenderCalled /\ ev.mounted) =>
        /\ loginElement.children = <<NewForm(Descriptors(ev.resp))>>
        /\ ev.postRenderArgs = StageOf(ev.resp)

-----------------------------------------------------------------------------
(* Properties of a submit whose fields name no descriptor *)

\* the descriptor at index n of an exchange exists
DescriptorExists(cc, n) == Has(cc, "callbacks") /\ n + 1 \in DOMAIN cc.callbacks

\* the fields named callback_N of the submitted form whose N names no
\* descriptor of the exchange
Dangling(cc, entries) ==
    {k \in DOMAIN entries :
        /\ IsCallbackField(entries[k].name)
        /\ ~DescriptorExists(cc, FieldIndex(entries[k].name))}

\* C28: a submit event sends its request only if every form field named
\* callback_N names a descriptor that exists in the current exchange; when
\* some N names none (an index past the end of the sequence, or an exchange
\* without a descriptor sequence), the handler faults, no request is sent and
\* none is put in flight.
C28_NoRequestForDanglingField ==
    [][ev'.op = "submit" =>
          /\ ev'.request # NoRequest => Dangling(currentCallbacks, ev'.entries) = {}
          /\ Dangling(currentCallbacks, ev'.entries) # {} =>
                /\ ev'.rejected
                /\ ev'.request = NoRequest
                /\ inFlight' = inFlight
                /\ sent' = sent
      ]_vars

\* a submit faulted on a field whose index is past the end of the descriptor
\* sequence, after the field before it was written
C28_Witness ==
    /\ ev.op = "submit" /\ ev.rejected /\ ev.request = NoRequest
    /\ Has(currentCallbacks, "callbacks")
    /\ \E k \in Dangling(currentCallbacks, ev.entries) :
          FieldIndex(ev.entries[k].name) >= Len(currentCallbacks.callbacks)
    /\ \E k \in DOMAIN ev.entries :
          /\ IsCallbackField(ev.entries[k].name)
          /\ DescriptorExists(currentCallbacks, FieldIndex(ev.entries[k].name))
          /\ Input0Value(currentCallbacks.callbacks[FieldIndex(ev.entries[k].name) + 1])
                = ev.entries[k].value

====
